---------------------------- MODULE Spec2Model ----------------------------
(***************************************************************************)
(* Model of the mapping converter of mcdl (src/lib.rs, convert_mappings    *)
(* and its helpers remove_brackets and remap_file_path).                   *)
(*                                                                         *)
(* Text is a sequence of one-character strings.  The converter is modelled *)
(* line by line: one step per iteration of each of its two loops.          *)
(***************************************************************************)
EXTENDS Integers, Sequences, FiniteSets, TLC

VARIABLES
    mappings,    \* the input text (&str argument of convert_mappings)
    pc,          \* "first_pass", "second_pass", "done" (returned), "panicked"
    idx,         \* position of the running loop's line iterator (1-based)
    file_name,   \* the Name Table: HashMap<String, String>
    output       \* the output String built by the second pass

vars == <<mappings, pc, idx, file_name, output>>

---------------------------------------------------------------------------
(* Bounds of the checked inputs.                                           *)

MaxLines == 3     \* lines of an input drawn from LinePool
MaxDims == 3      \* trailing "[]" markers on a type token

---------------------------------------------------------------------------
(* str primitives of the Rust standard library, as the converter uses them *)

StartsWith(s, p) == Len(s) >= Len(p) /\ SubSeq(s, 1, Len(p)) = p

EndsWith(s, p) == Len(s) >= Len(p) /\ SubSeq(s, Len(s) - Len(p) + 1, Len(s)) = p

Contains(s, c) == \E i \in 1..Len(s) : s[i] = c

\* char::is_whitespace: the Unicode White_Space code points.  U+0009..U+000D,
\* U+0020, U+0085, U+00A0 and U+1680 stand as themselves; the ones a string
\* of this module cannot hold stand under the name of their code point.
IsWhitespace(c) ==
    c \in {"\t", "\n", "", "\f", "\r", " ", "", " ", " ",
           "U+2000", "U+2001", "U+2002", "U+2003", "U+2004", "U+2005", "U+2006",
           "U+2007", "U+2008", "U+2009", "U+200A", "U+2028", "U+2029", "U+202F",
           "U+205F", "U+3000"}

\* Index of the first occurrence of pat in s, 0 when there is none.
Find(s, pat) ==
    LET hits == {i \in 1..(Len(s) - Len(pat) + 1) : SubSeq(s, i, i + Len(pat) - 1) = pat}
    IN IF hits = {} THEN 0 ELSE CHOOSE i \in hits : \A j \in hits : i <= j

\* str::split(pat): the parts between the non-overlapping matches, left to right.
RECURSIVE Split(_, _)
Split(s, pat) ==
    LET i == Find(s, pat)
    IN IF i = 0 THEN <<s>>
       ELSE <<SubSeq(s, 1, i - 1)>> \o Split(SubSeq(s, i + Len(pat), Len(s)), pat)

\* s.split(c).next().unwrap_or(""): the text before the first c.
SplitFirst(s, c) == Split(s, <<c>>)[1]

\* s.split(c).last().unwrap_or(""): the text after the last c.
SplitLast(s, c) == LET p == Split(s, <<c>>) IN p[Len(p)]

\* str::replace of one character by another.
Replace(s, from, to) == [i \in 1..Len(s) |-> IF s[i] = from THEN to ELSE s[i]]

RECURSIVE trim_start(_)
trim_start(s) == IF s # <<>> /\ IsWhitespace(Head(s)) THEN trim_start(Tail(s)) ELSE s

RECURSIVE trim_end(_)
trim_end(s) ==
    IF s # <<>> /\ IsWhitespace(s[Len(s)]) THEN trim_end(SubSeq(s, 1, Len(s) - 1)) ELSE s

trim(s) == trim_end(trim_start(s))

\* str::split_whitespace: the maximal runs of non-whitespace characters.
RECURSIVE split_whitespace(_)
split_whitespace(s) ==
    LET t == trim_start(s)
        ws == {i \in 1..Len(t) : IsWhitespace(t[i])}
        k == IF ws = {} THEN Len(t) + 1 ELSE CHOOSE i \in ws : \A j \in ws : i <= j
    IN IF t = <<>> THEN <<>>
       ELSE <<SubSeq(t, 1, k - 1)>> \o split_whitespace(SubSeq(t, k, Len(t)))

\* str::lines: split at "\n", a line's "\r" before its "\n" dropped, no
\* empty last line after a final "\n".
Lines(s) ==
    LET p == Split(s, <<"\n">>)
        n == Len(p)
        strip(l) == IF EndsWith(l, <<"\r">>) THEN SubSeq(l, 1, Len(l) - 1) ELSE l
        body == [i \in 1..(n - 1) |-> strip(p[i])]
    IN IF p[n] = <<>> THEN body ELSE body \o <<p[n]>>

\* n copies of s, one after the other.
RECURSIVE Repeat(_, _)
Repeat(s, n) == IF n = 0 THEN <<>> ELSE s \o Repeat(s, n - 1)

\* [String]::join("")
RECURSIVE Join(_)
Join(ss) == IF ss = <<>> THEN <<>> ELSE Head(ss) \o Join(Tail(ss))

---------------------------------------------------------------------------
(* remove_brackets and remap_file_path                                     *)

RECURSIVE remove_brackets(_)
remove_brackets(line) ==
    IF EndsWith(line, <<"[", "]">>)
    THEN LET r == remove_brackets(SubSeq(line, 1, Len(line) - 2))
         IN <<r[1], r[2] + 1>>
    ELSE <<line, 0>>

remap_primitives ==
    (<<"i","n","t">> :> "I") @@
    (<<"d","o","u","b","l","e">> :> "D") @@
    (<<"b","o","o","l","e","a","n">> :> "Z") @@
    (<<"f","l","o","a","t">> :> "F") @@
    (<<"l","o","n","g">> :> "J") @@
    (<<"b","y","t","e">> :> "B") @@
    (<<"s","h","o","r","t">> :> "S") @@
    (<<"c","h","a","r">> :> "C") @@
    (<<"v","o","i","d">> :> "V")

remap_file_path(path) ==
    IF path \in DOMAIN remap_primitives
    THEN <<remap_primitives[path]>>
    ELSE <<"L">> \o Replace(path, ".", "/") \o <<";">>

---------------------------------------------------------------------------
(* The Name Table                                                          *)

EmptyMap == [k \in {} |-> <<>>]

\* Mutant: an insert under a key already there is dropped.
Insert_KeepFirst(m, k, v) == [q \in DOMAIN m \cup {k} |-> IF q \in DOMAIN m THEN m[q] ELSE v]

\* HashMap::insert: a later insert under the same key overwrites.
Insert(m, k, v) == [q \in DOMAIN m \cup {k} |-> IF q = k THEN v ELSE m[q]]

---------------------------------------------------------------------------
(* The descriptor of a return type and of a parameter (two copies of the   *)
(* same steps in the source, kept apart here as there).                    *)

\* Mutant: the markers end up inside the reference wrapper.
RestoreBrackets_Inside(d, n) ==
    IF EndsWith(d, <<";">>)
    THEN <<"L">> \o Repeat(<<"[">>, n) \o SubSeq(d, 2, Len(d))
    ELSE Repeat(<<"[">>, n) \o d

\* "Restore array brackets": one "[" per counted marker.
RECURSIVE RestoreBrackets(_, _)
RestoreBrackets(d, n) ==
    IF n = 0 THEN d
    ELSE RestoreBrackets(
            IF EndsWith(d, <<";">>)
            THEN <<"[">> \o SubSeq(d, 1, Len(d) - 1) \o <<";">>
            ELSE <<"[">> \o d,
            n - 1)

\* method_type after lines 385-405, from the token left by the range strip.
EncodeReturn(method_type, table) ==
    LET rb == remove_brackets(method_type)
        remapped == remap_file_path(rb[1])
        looked == IF remapped \in DOMAIN table
                  THEN <<"L">> \o table[remapped] \o <<";">>
                  ELSE remapped
        slashed == IF Contains(looked, ".") THEN Replace(looked, ".", "/") ELSE looked
    IN RestoreBrackets(slashed, rb[2])

\* remapped after lines 414-435, from one comma-separated parameter token.
EncodeVariable(variable, table) ==
    LET rb == remove_brackets(variable)
        remapped == remap_file_path(rb[1])
        looked == IF remapped \in DOMAIN table
                  THEN <<"L">> \o table[remapped] \o <<";">>
                  ELSE remapped
        slashed == IF Contains(looked, ".") THEN Replace(looked, ".", "/") ELSE looked
    IN RestoreBrackets(slashed, rb[2])

\* Mutant: the descriptors are joined with the commas of the input.
ProcessedVariables_Commas(variables_str, table) ==
    IF variables_str = <<>> THEN <<>>
    ELSE LET variables == Split(variables_str, <<",">>)
             coded == [i \in 1..Len(variables) |-> EncodeVariable(variables[i], table)]
         IN Join([i \in 1..Len(coded) |->
                    IF i = 1 THEN coded[i] ELSE <<",">> \o coded[i]])

\* processed_variables: nothing for an empty list, else every token encoded.
ProcessedVariables(variables_str, table) ==
    IF variables_str = <<>> THEN <<>>
    ELSE LET variables == Split(variables_str, <<",">>)
         IN Join([i \in 1..Len(variables) |-> EncodeVariable(variables[i], table)])

---------------------------------------------------------------------------
(* One line of the first pass                                              *)

Sep == <<" ", "-", ">", " ">>
Indent == <<" ", " ", " ", " ">>

\* The first pass leaves the line alone (lines 335-342).
FirstPassIgnores(line) ==
    \/ StartsWith(line, <<"#">>)
    \/ StartsWith(line, Indent)
    \/ Len(Split(line, Sep)) < 2

\* Mutant: the key is the name as written, not its descriptor.
FirstPassKey_Raw(line) == Split(line, Sep)[1]

\* The key and the value the first pass inserts (lines 344-347).
FirstPassKey(line) == remap_file_path(Split(line, Sep)[1])
FirstPassValue(line) == SplitFirst(Split(line, Sep)[2], ":")

---------------------------------------------------------------------------
(* One line of the second pass                                             *)

\* Mutant: the second pass does not skip comments.
SecondPassIgnores_KeepComments(line) == Len(Split(line, Sep)) < 2

\* Lines 354-361: a comment or a line without the separator.
SecondPassIgnores(line) ==
    \/ StartsWith(line, <<"#">>)
    \/ Len(Split(line, Sep)) < 2

IsMember(line) == StartsWith(line, Indent)

method_parts(line) == split_whitespace(trim_start(Split(line, Sep)[1]))

\* Lines 369-371: a member line with fewer than two tokens.
MemberTooShort(line) == Len(method_parts(line)) < 2

\* Mutant: an opening parenthesis alone makes a method.
IsFunction_OpenOnly(line) == Contains(method_parts(line)[2], "(")

\* Line 376.
IsFunction(line) ==
    LET method_name == method_parts(line)[2]
    IN Contains(method_name, "(") /\ Contains(method_name, ")")

\* Lines 373-446: the output line of a method.
FunctionLine(line, table) ==
    LET obf_name == trim(Split(line, Sep)[2])
        method_type == SplitLast(method_parts(line)[1], ":")
        method_name == method_parts(line)[2]
        function_name == SplitFirst(method_name, "(")
        variables_str == SplitFirst(SplitLast(method_name, "("), ")")
    IN <<"\t">> \o obf_name \o <<" ", "(">> \o ProcessedVariables(variables_str, table)
         \o <<")">> \o EncodeReturn(method_type, table) \o <<" ">> \o function_name
         \o <<"\n">>

\* Lines 448-449: the output line of a field.
FieldLine(line) ==
    LET obf_name == trim(Split(line, Sep)[2])
        method_name == method_parts(line)[2]
    IN <<"\t">> \o obf_name \o <<" ">> \o method_name \o <<"\n">>

\* Lines 453-455 of the class branch.
ClassDeobfRemapped(line) == remap_file_path(Split(line, Sep)[1])
ClassObfRemapped(line) == remap_file_path(SplitFirst(trim(Split(line, Sep)[2]), ":"))

\* Lines 458-459: &s[1..s.len() - 1] panics when s is one character long
\* (the range then starts at 1 and ends at 0).
SlicePanics(s) == 1 > Len(s) - 1

ClassPanics(line) ==
    SlicePanics(ClassDeobfRemapped(line)) \/ SlicePanics(ClassObfRemapped(line))

\* Mutant: the obfuscated name is written as the input has it.
ClassLine_RawObf(line) ==
    LET deobf_remapped == ClassDeobfRemapped(line)
        deobf_clean == SubSeq(deobf_remapped, 2, Len(deobf_remapped) - 1)
    IN SplitFirst(trim(Split(line, Sep)[2]), ":") \o <<" ">> \o deobf_clean \o <<"\n">>

\* Lines 458-461: the output line of a class header.
ClassLine(line) ==
    LET deobf_remapped == ClassDeobfRemapped(line)
        obf_remapped == ClassObfRemapped(line)
        deobf_clean == SubSeq(deobf_remapped, 2, Len(deobf_remapped) - 1)
        obf_clean == SubSeq(obf_remapped, 2, Len(obf_remapped) - 1)
    IN obf_clean \o <<" ">> \o deobf_clean \o <<"\n">>

---------------------------------------------------------------------------
(* The steps of convert_mappings                                           *)

InputLines == Lines(mappings)
NLines == Len(InputLines)
CurLine == InputLines[idx]

FirstPassSkip ==
    /\ pc = "first_pass" /\ idx <= NLines
    /\ FirstPassIgnores(CurLine)
    /\ idx' = idx + 1
    /\ UNCHANGED <<mappings, pc, file_name, output>>

FirstPassInsert ==
    /\ pc = "first_pass" /\ idx <= NLines
    /\ ~FirstPassIgnores(CurLine)
    /\ file_name' = Insert(file_name, FirstPassKey(CurLine), FirstPassValue(CurLine))
    /\ idx' = idx + 1
    /\ UNCHANGED <<mappings, pc, output>>

\* The first loop ends; output = String::new() and the second loop starts.
FirstPassEnd ==
    /\ pc = "first_pass" /\ idx > NLines
    /\ pc' = "second_pass"
    /\ idx' = 1
    /\ output' = <<>>
    /\ UNCHANGED <<mappings, file_name>>

SecondPassSkip ==
    /\ pc = "second_pass" /\ idx <= NLines
    /\ \/ SecondPassIgnores(CurLine)
       \/ ~SecondPassIgnores(CurLine) /\ IsMember(CurLine) /\ MemberTooShort(CurLine)
    /\ idx' = idx + 1
    /\ UNCHANGED <<mappings, pc, file_name, output>>

ProcessFunction ==
    /\ pc = "second_pass" /\ idx <= NLines
    /\ ~SecondPassIgnores(CurLine) /\ IsMember(CurLine) /\ ~MemberTooShort(CurLine)
    /\ IsFunction(CurLine)
    /\ output' = output \o FunctionLine(CurLine, file_name)
    /\ idx' = idx + 1
    /\ UNCHANGED <<mappings, pc, file_name>>

ProcessField ==
    /\ pc = "second_pass" /\ idx <= NLines
    /\ ~SecondPassIgnores(CurLine) /\ IsMember(CurLine) /\ ~MemberTooShort(CurLine)
    /\ ~IsFunction(CurLine)
    /\ output' = output \o FieldLine(CurLine)
    /\ idx' = idx + 1
    /\ UNCHANGED <<mappings, pc, file_name>>

\* Mutant: the class branch of the second pass fills the Name Table too.
ProcessClass_Inserting ==
    /\ pc = "second_pass" /\ idx <= NLines
    /\ ~SecondPassIgnores(CurLine) /\ ~IsMember(CurLine)
    /\ ~ClassPanics(CurLine)
    /\ file_name' = Insert(file_name, FirstPassKey(CurLine), FirstPassValue(CurLine))
    /\ output' = output \o ClassLine(CurLine)
    /\ idx' = idx + 1
    /\ UNCHANGED <<mappings, pc>>

ProcessClass ==
    /\ pc = "second_pass" /\ idx <= NLines
    /\ ~SecondPassIgnores(CurLine) /\ ~IsMember(CurLine)
    /\ ~ClassPanics(CurLine)
    /\ output' = output \o ClassLine(CurLine)
    /\ idx' = idx + 1
    /\ UNCHANGED <<mappings, pc, file_name>>

\* The slice of a one-letter descriptor panics: the call unwinds and
\* returns nothing.
ProcessClassPanic ==
    /\ pc = "second_pass" /\ idx <= NLines
    /\ ~SecondPassIgnores(CurLine) /\ ~IsMember(CurLine)
    /\ ClassPanics(CurLine)
    /\ pc' = "panicked"
    /\ UNCHANGED <<mappings, idx, file_name, output>>

\* The second loop ends and output is returned.
Return ==
    /\ pc = "second_pass" /\ idx > NLines
    /\ pc' = "done"
    /\ UNCHANGED <<mappings, idx, file_name, output>>

Next ==
    \/ FirstPassSkip
    \/ FirstPassInsert
    \/ FirstPassEnd
    \/ SecondPassSkip
    \/ ProcessFunction
    \/ ProcessField
    \/ ProcessClass
    \/ ProcessClassPanic
    \/ Return

---------------------------------------------------------------------------
(* The inputs checked.  A line is built from its parts, so that a property *)
(* can name the parts of the line the converter had to find by parsing.    *)

\* A type token: a base name followed by n "[]" markers.
TokenText(tok) == tok[1] \o Repeat(<<"[", "]">>, tok[2])

RECURSIVE JoinComma(_)
JoinComma(ss) ==
    IF ss = <<>> THEN <<>>
    ELSE IF Len(ss) = 1 THEN ss[1]
    ELSE ss[1] \o <<",">> \o JoinComma(Tail(ss))

\* <deobf> -> <obf>:   (pad: white space some inputs put before <obf>)
MkHeader(h) == h.deobf \o Sep \o h.pad \o h.obf \o <<":">>

\*     [<range>:]<ret> <name>(<p1>,...,<pk>) -> <obf>
MkMethod(m) ==
    Indent \o m.range \o TokenText(m.ret) \o <<" ">> \o m.name \o <<"(">>
      \o JoinComma([i \in 1..Len(m.params) |-> TokenText(m.params[i])])
      \o <<")">> \o Sep \o m.obf

\*     <type> <name> -> <obf>
MkField(f) == Indent \o f.type \o <<" ">> \o f.name \o Sep \o f.obf

Text(ls) == Join([i \in 1..Len(ls) |-> ls[i] \o <<"\n">>])

Primitives == DOMAIN remap_primitives

KwInt == <<"i","n","t">>
KwVoid == <<"v","o","i","d">>
ClassA == <<"p",".","A">>      \* a class the inputs may declare
ClassB == <<"B">>              \* a class no input declares
ClassC == <<"C">>              \* a second class the inputs may declare

\* Names that are no keyword: another case, a keyword as prefix, as suffix.
OtherNames ==
    {ClassA, ClassB, ClassC, <<"I","n","t">>, <<"i","n","t","s">>, <<"u","i","n","t">>}

BaseNames == Primitives \cup OtherNames

HdrAx == [deobf |-> ClassA, pad |-> <<>>, obf |-> <<"x">>]
HdrAqy == [deobf |-> ClassA, pad |-> <<>>, obf |-> <<"q",".","y">>]
HdrCy == [deobf |-> ClassC, pad |-> <<>>, obf |-> <<"y">>]
HdrIntz == [deobf |-> KwInt, pad |-> <<>>, obf |-> <<"z">>]
\* p.A -> <form feed>x:
HdrApadx == [deobf |-> ClassA, pad |-> <<"\f">>, obf |-> <<"x">>]
HeaderParts == {HdrAx, HdrAqy, HdrCy, HdrIntz, HdrApadx}

\*     1:2:p.A[] get(int,C,p.A) -> c
MethGet ==
    [range |-> <<"1",":","2",":">>, ret |-> <<ClassA, 1>>, name |-> <<"g","e","t">>,
     params |-> <<(<<KwInt, 0>>), (<<ClassC, 0>>), (<<ClassA, 0>>)>>, obf |-> <<"c">>]

\*     void tick() -> b
MethTick ==
    [range |-> <<>>, ret |-> <<KwVoid, 0>>, name |-> <<"t","i","c","k">>,
     params |-> <<>>, obf |-> <<"b">>]

\*     p.A get(int) -> c
MethGetInt ==
    [range |-> <<>>, ret |-> <<ClassA, 0>>, name |-> <<"g","e","t">>,
     params |-> <<(<<KwInt, 0>>)>>, obf |-> <<"c">>]

\*     <t> f(<t>) -> m, for every base name and every number of markers
MethOfType(tok) ==
    [range |-> <<>>, ret |-> tok, name |-> <<"f">>, params |-> <<tok>>, obf |-> <<"m">>]

TypeTokens == BaseNames \X (0..MaxDims)

TypedMethods == {MethOfType(tok) : tok \in TypeTokens}

MethodParts == {MethGet, MethTick, MethGetInt} \cup TypedMethods

\*     int count -> a
FieldCount == [type |-> KwInt, name |-> <<"c","o","u","n","t">>, obf |-> <<"a">>]
\*     p.A at( -> e      (one parenthesis only)
FieldOpen == [type |-> ClassA, name |-> <<"a","t","(">>, obf |-> <<"e">>]
\*     int[] )k -> h
FieldClose == [type |-> <<"i","n","t","[","]">>, name |-> <<")","k">>, obf |-> <<"h">>]
\*     int )k( -> n      (both parentheses, the closing one first)
FieldBoth == [type |-> KwInt, name |-> <<")","k","(">>, obf |-> <<"n">>]
FieldParts == {FieldCount, FieldOpen, FieldClose, FieldBoth}

\* # p.A -> w:      (a comment that holds the separator)
CommentLine == <<"#", " ">> \o ClassA \o Sep \o <<"w", ":">>
\* junk             (no separator)
JunkLine == <<"j","u","n","k">>
\*     lone -> d    (a member line with one token)
LoneLine == Indent \o <<"l","o","n","e">> \o Sep \o <<"d">>

\*     int<form feed>count -> a<form feed>
FormFeedField ==
    Indent \o KwInt \o <<"\f">> \o <<"c","o","u","n","t">> \o Sep \o <<"a", "\f">>

\* The lines whose order and interplay matter: inputs hold up to MaxLines of them.
LinePool ==
    {MkHeader(HdrAx), MkHeader(HdrAqy), MkHeader(HdrCy), MkHeader(HdrIntz),
     MkMethod(MethGet),
     MkField(FieldCount), CommentLine, JunkLine}

\* The other lines stand alone or next to one header.
SingleLines ==
    {MkMethod(m) : m \in MethodParts} \cup {MkField(f) : f \in FieldParts}
      \cup {LoneLine, <<>>, MkHeader(HdrApadx), FormFeedField}

HeaderOpts == {<<>>, <<MkHeader(HdrAx)>>, <<MkHeader(HdrIntz)>>}

Inputs ==
    {Text(ls) : ls \in UNION {[1..n -> LinePool] : n \in 0..MaxLines}}
      \cup {Text(pre \o <<l>> \o post) :
              pre \in HeaderOpts, l \in SingleLines, post \in HeaderOpts}

Init ==
    /\ mappings \in Inputs
    /\ pc = "first_pass"
    /\ idx = 1
    /\ file_name = EmptyMap
    /\ output = <<>>

Spec == Init /\ [][Next]_vars

---------------------------------------------------------------------------
(* What the properties below read off a state                              *)

\* The lines of the inputs next to the parts they were built from.
HeaderTable == {<<MkHeader(h), h>> : h \in HeaderParts}
MethodTable == {<<MkMethod(m), m>> : m \in MethodParts}
TypedMethodTable == {<<MkMethod(m), m>> : m \in TypedMethods}
FieldTable == {<<MkField(f), f>> : f \in FieldParts}

OutLines == Lines(output)

\* Lines the second pass has gone through.
Processed == IF pc = "first_pass" THEN 0 ELSE idx - 1

\* A line that is no comment, holds the separator and, as a member line,
\* has two tokens on its left side.
Emits(line) ==
    /\ ~StartsWith(line, <<"#">>)
    /\ Find(line, Sep) # 0
    /\ StartsWith(line, Indent) =>
          Len(split_whitespace(SubSeq(line, 1, Find(line, Sep) - 1))) >= 2

\* The place in the output of the line that line j of ls produced.
OutIndex(ls, j) == Cardinality({k \in 1..j : Emits(ls[k])})

Dims(n) == Repeat(<<"[">>, n)
Internal(name) == Replace(name, ".", "/")
Wrap(name) == <<"L">> \o name \o <<";">>

\* \t<obf> (<DP(p1)>...<DP(pk)>)<DR(ret)> <name>
MethodOut(m, DP(_), DR(_)) ==
    <<"\t">> \o m.obf \o <<" ", "(">>
      \o Join([i \in 1..Len(m.params) |-> DP(m.params[i])])
      \o <<")">> \o DR(m.ret) \o <<" ">> \o m.name

TokensOf(m) == {m.ret} \cup {m.params[i] : i \in 1..Len(m.params)}

\* The obfuscated names of the headers of class name B among the lines ls,
\* as <<line number, name>>.
HeadersOf(ls, B) ==
    LET at == {x \in (1..Len(ls)) \X HeaderTable :
                  x[2][2].deobf = B /\ x[2][1] = ls[x[1]]}
    IN {<<x[1], x[2][2].obf>> : x \in at}

LastHeaderOf(ls, B) ==
    LET hs == HeadersOf(ls, B)
    IN (CHOOSE x \in hs : \A y \in hs : y[1] <= x[1])[2]

---------------------------------------------------------------------------
(* C1: forward references resolve.  On every method line gone through, a   *)
(* type token naming a class (no keyword) whose header stands anywhere in  *)
(* the input, above or below the method line, is emitted as L<o>; with o   *)
(* the obfuscated name of a header of that class, dots as "/"; a class     *)
(* name with no header in the input is emitted as L<name, dots as "/">;.   *)
(* Keyword tokens are left to the converter here.                          *)

C1_Ref(ls, tok, pick, coded) ==
    IF tok[1] \in Primitives THEN coded
    ELSE IF HeadersOf(ls, tok[1]) = {} THEN Dims(tok[2]) \o Wrap(Internal(tok[1]))
    ELSE Dims(tok[2]) \o Wrap(Internal(pick[tok[1]]))

\* The ways to give every declared class of line m the name of one of its headers.
C1_Picks(ls, m) ==
    LET declared == {B \in {t[1] : t \in TokensOf(m)} :
                        B \notin Primitives /\ HeadersOf(ls, B) # {}}
    IN {f \in [declared -> {h.obf : h \in HeaderParts}] :
           \A B \in declared : \E x \in HeadersOf(ls, B) : x[2] = f[B]}

\* C1: a class reference is emitted with the name of a header of that class,
\* wherever in the input the header stands; an undeclared one with its own name.
C1_ForwardReferences ==
    LET ls == InputLines
        ol == OutLines
    IN \A j \in 1..Processed : \A p \in MethodTable :
          ls[j] = p[1] =>
              \E pick \in C1_Picks(ls, p[2]) :
                  ol[OutIndex(ls, j)] = MethodOut(p[2],
                      LAMBDA t : C1_Ref(ls, t, pick, EncodeVariable(TokenText(t), file_name)),
                      LAMBDA t : C1_Ref(ls, t, pick, EncodeReturn(TokenText(t), file_name)))

\* The method line stands above the header of the class it names, and below
\* nothing: its parameter and return type still carry the header's name.
C1_Witness ==
    /\ mappings = Text(<<MkMethod(MethGet), MkHeader(HdrAx)>>)
    /\ pc = "done"
    /\ OutLines[1] = <<"\t","c"," ","(","I","L","C",";","L","x",";",")","[","L","x",";",
                       " ","g","e","t">>

---------------------------------------------------------------------------
(* C2: the converter has no error outcome: whatever the input, no line     *)
(* aborts the conversion.                                                  *)

C2_NoErrorOutcome == pc # "panicked"

---------------------------------------------------------------------------
(* C3: primitive encoding is exact-keyword.  On every method line gone     *)
(* through and whatever the Name Table holds, a token whose base is one of *)
(* the nine keywords is emitted as its letter (after one "[" per marker),  *)
(* and every other token in the wrapped form L...;.                        *)

C3_IsWrapped(d) == Len(d) >= 2 /\ d[1] = "L" /\ d[Len(d)] = ";"

C3_Desc(tok, coded) ==
    IF tok[1] \in Primitives THEN Dims(tok[2]) \o <<remap_primitives[tok[1]]>> ELSE coded

\* C3: keyword tokens are emitted as their letter, other tokens wrapped.
C3_PrimitiveExact ==
    LET ls == InputLines
        ol == OutLines
    IN \A j \in 1..Processed : \A p \in MethodTable :
          ls[j] = p[1] =>
              /\ ol[OutIndex(ls, j)] = MethodOut(p[2],
                      LAMBDA t : C3_Desc(t, EncodeVariable(TokenText(t), file_name)),
                      LAMBDA t : C3_Desc(t, EncodeReturn(TokenText(t), file_name)))
              /\ \A t \in TokensOf(p[2]) :
                    t[1] \notin Primitives =>
                       /\ C3_IsWrapped(EncodeVariable(t[1], file_name))
                       /\ C3_IsWrapped(EncodeReturn(t[1], file_name))

---------------------------------------------------------------------------
(* C4: array dimensions are a literal prefix.  On every method line gone   *)
(* through, a token of base t with N markers, as return type and as        *)
(* parameter, is emitted as N "[" followed by what t alone is emitted as,  *)
(* and that base descriptor holds no "[".                                  *)

C4_ArrayPrefix ==
    LET ls == InputLines
        ol == OutLines
    IN \A j \in 1..Processed : \A p \in MethodTable :
          ls[j] = p[1] =>
              /\ ol[OutIndex(ls, j)] = MethodOut(p[2],
                      LAMBDA t : Dims(t[2]) \o EncodeVariable(t[1], file_name),
                      LAMBDA t : Dims(t[2]) \o EncodeReturn(t[1], file_name))
              /\ \A t \in TokensOf(p[2]) :
                    /\ ~Contains(EncodeVariable(t[1], file_name), "[")
                    /\ ~Contains(EncodeReturn(t[1], file_name), "[")

\* A declared class with MaxDims markers, return type and parameter.
C4_Witness ==
    /\ mappings = Text(<<MkMethod(MethOfType(<<ClassA, MaxDims>>)), MkHeader(HdrAx)>>)
    /\ pc = "done"
    /\ OutLines[1] = <<"\t","m"," ","(">> \o Dims(MaxDims) \o <<"L","x",";",")">>
                        \o Dims(MaxDims) \o <<"L","x",";"," ","f">>
    /\ MaxDims >= 3

---------------------------------------------------------------------------
(* C5 as stated: every class-header line gone through produced the line    *)
(* <obf> <internal deobf>, the first field being the obfuscated name       *)
(* character for character as the input has it and as the first pass       *)
(* stored it in the Name Table.                                            *)

\* C5 (as stated): a header line is emitted led by its raw obfuscated name.
C5_RawObfuscatedName ==
    LET ls == InputLines
        ol == OutLines
    IN \A j \in 1..Processed : \A p \in HeaderTable :
          ls[j] = p[1] =>
              /\ ol[OutIndex(ls, j)] =
                    p[2].pad \o p[2].obf \o <<" ">> \o Internal(p[2].deobf)
              /\ ol[OutIndex(ls, j)] =
                    FirstPassValue(ls[j]) \o <<" ">> \o Internal(p[2].deobf)

(* C5 as amended: every class-header line gone through produced the line   *)
(* <obf with dots as "/"> <deobf with dots as "/">, neither name being a   *)
(* primitive keyword; the conversion aborts only at a class-header line    *)
(* one of whose names is a primitive keyword, which produces no line.      *)

\* C5 (amended): a header line is emitted as both names with dots as "/";
\* only a header naming a primitive keyword aborts, leaving no line.
C5_ClassHeaderEmission ==
    LET ls == InputLines
        ol == OutLines
    IN /\ \A j \in 1..Processed : \A p \in HeaderTable :
             ls[j] = p[1] =>
                 /\ ol[OutIndex(ls, j)] = Internal(p[2].obf) \o <<" ">> \o Internal(p[2].deobf)
                 /\ p[2].obf \notin Primitives /\ p[2].deobf \notin Primitives
       /\ pc = "panicked" =>
             /\ \E p \in HeaderTable :
                   /\ ls[idx] = p[1]
                   /\ p[2].obf \in Primitives \/ p[2].deobf \in Primitives
             /\ Len(ol) = OutIndex(ls, idx - 1)

\* com.example.Foo -> x: in small: p.A -> q.y: gives q/y p/A
C5_Witness ==
    /\ mappings = Text(<<MkHeader(HdrAx), MkHeader(HdrAqy)>>)
    /\ pc = "done"
    /\ output = <<"x"," ","p","/","A","\n", "q","/","y"," ","p","/","A","\n">>

---------------------------------------------------------------------------
(* C6: method emission.  Every method line gone through produced exactly   *)
(* the line \t<obf> (<D(p1)>...<D(pk)>)<D(ret)> <name>: the parameters in  *)
(* input order without separators, <name> the text before "(", <ret> the   *)
(* first token without its range prefix, D the converter's descriptor.     *)

C6_MethodEmission ==
    LET ls == InputLines
        ol == OutLines
    IN \A j \in 1..Processed : \A p \in MethodTable :
          ls[j] = p[1] =>
              ol[OutIndex(ls, j)] = MethodOut(p[2],
                  LAMBDA t : EncodeVariable(TokenText(t), file_name),
                  LAMBDA t : EncodeReturn(TokenText(t), file_name))

\* p.A -> x: then "    p.A get(int) -> c" gives \tc (I)Lx; get
C6_Witness ==
    /\ mappings = Text(<<MkHeader(HdrAx), MkMethod(MethGetInt)>>)
    /\ pc = "done"
    /\ output = <<"x"," ","p","/","A","\n",
                  "\t","c"," ","(","I",")","L","x",";"," ","g","e","t","\n">>

---------------------------------------------------------------------------
(* C7: member classification and field emission.  A member line is a       *)
(* method exactly when its second token holds both "(" and ")"; any other  *)
(* member line with two tokens produced \t<obf> <second token>, the type   *)
(* left out whatever the Name Table holds; a member line with fewer than   *)
(* two tokens produced nothing.                                            *)

C7_MethodShaped(out, obf) ==
    LET fields == Split(out, <<" ">>)
    IN /\ Len(fields) = 3
       /\ fields[1] = <<"\t">> \o obf
       /\ StartsWith(fields[2], <<"(">>) /\ Contains(fields[2], ")")

C7_HasBoth(name) == Contains(name, "(") /\ Contains(name, ")")

\* C7: method exactly when the second token holds "(" and ")"; else the
\* field line \t<obf> <second token>; nothing for a one-token member line.
C7_MemberClassification ==
    LET ls == InputLines
        ol == OutLines
    IN /\ \A j \in 1..Processed :
             /\ \A p \in FieldTable :
                   ls[j] = p[1] =>
                       IF C7_HasBoth(p[2].name)
                       THEN C7_MethodShaped(ol[OutIndex(ls, j)], p[2].obf)
                       ELSE ol[OutIndex(ls, j)] = <<"\t">> \o p[2].obf \o <<" ">> \o p[2].name
             /\ \A p \in MethodTable :
                   ls[j] = p[1] => C7_MethodShaped(ol[OutIndex(ls, j)], p[2].obf)
             /\ ls[j] = LoneLine => OutIndex(ls, j) = OutIndex(ls, j - 1)
             /\ ls[j] = FormFeedField =>
                   ol[OutIndex(ls, j)] = <<"\t","a"," ","c","o","u","n","t">>
       /\ Len(ol) = OutIndex(ls, Processed)

\* A field of a declared class type, its name holding "(" alone.
C7_Witness ==
    /\ mappings = Text(<<MkHeader(HdrAx), MkField(FieldOpen)>>)
    /\ pc = "done"
    /\ output = <<"x"," ","p","/","A","\n", "\t","e"," ","a","t","(","\n">>

---------------------------------------------------------------------------
(* C8: line for line, in order.  Comment lines and lines without the       *)
(* separator leave nothing in the Name Table nor in the output; every      *)
(* other line leaves at most one output line; the k-th output line comes   *)
(* from the k-th line that was not skipped.                                *)

C8_ComesFrom(out, line) ==
    /\ \A p \in HeaderTable :
          line = p[1] => StartsWith(out, Internal(p[2].obf) \o <<" ">>)
    /\ \A p \in MethodTable :
          line = p[1] => StartsWith(out, <<"\t">> \o p[2].obf \o <<" ">>)
    /\ \A p \in FieldTable :
          line = p[1] => StartsWith(out, <<"\t">> \o p[2].obf \o <<" ">>)

\* C8: skipped lines leave nothing; the k-th output line comes from the
\* k-th line not skipped.
C8_LineForLine ==
    LET ls == InputLines
        ol == OutLines
    IN /\ Len(ol) = OutIndex(ls, Processed)
       /\ Len(ol) <=
             Cardinality({k \in 1..Processed :
                 ~StartsWith(ls[k], <<"#">>) /\ Find(ls[k], Sep) # 0})
       /\ \A j \in 1..Processed :
             Emits(ls[j]) => C8_ComesFrom(ol[OutIndex(ls, j)], ls[j])
       /\ \A key \in DOMAIN file_name :
             \E k \in 1..Len(ls) : \E p \in HeaderTable :
                 /\ ls[k] = p[1]
                 /\ key = remap_file_path(p[2].deobf)
                 /\ file_name[key] = p[2].pad \o p[2].obf

\* A field, a comment holding the separator, a header: two output lines.
C8_Witness ==
    /\ mappings = Text(<<MkField(FieldCount), CommentLine, MkHeader(HdrAx)>>)
    /\ pc = "done"
    /\ output = <<"\t","a"," ","c","o","u","n","t","\n", "x"," ","p","/","A","\n">>
    /\ DOMAIN file_name = {<<"L","p","/","A",";">>}

---------------------------------------------------------------------------
(* C9: duplicate class names are last-write-wins.  When headers of one     *)
(* class name carry different obfuscated names, every reference to the     *)
(* class on a method line gone through, wherever it stands, is emitted     *)
(* with the obfuscated name of the last such header of the input, and      *)
(* each of those headers produced its own line, led by its own obfuscated  *)
(* name (in the output's form, dots as "/").                               *)

C9_Duplicated(ls, B) ==
    B \notin Primitives /\ Cardinality({x[2] : x \in HeadersOf(ls, B)}) >= 2

C9_Ref(ls, tok, coded) ==
    IF C9_Duplicated(ls, tok[1])
    THEN Dims(tok[2]) \o Wrap(Internal(LastHeaderOf(ls, tok[1])))
    ELSE coded

\* C9: a reference to a class declared twice takes the last header's name;
\* each header keeps its own line and name.
C9_LastWriteWins ==
    LET ls == InputLines
        ol == OutLines
    IN \A j \in 1..Processed :
          /\ \A p \in MethodTable :
                ls[j] = p[1] =>
                    ol[OutIndex(ls, j)] = MethodOut(p[2],
                        LAMBDA t : C9_Ref(ls, t, EncodeVariable(TokenText(t), file_name)),
                        LAMBDA t : C9_Ref(ls, t, EncodeReturn(TokenText(t), file_name)))
          /\ \A p \in HeaderTable :
                ls[j] = p[1] /\ C9_Duplicated(ls, p[2].deobf) =>
                    Split(ol[OutIndex(ls, j)], <<" ">>)[1] = Internal(p[2].obf)

\* The reference stands between the two headers and takes the second's name.
C9_Witness ==
    /\ mappings = Text(<<MkHeader(HdrAx), MkMethod(MethGet), MkHeader(HdrAqy)>>)
    /\ pc = "done"
    /\ output = <<"x"," ","p","/","A","\n",
                  "\t","c"," ","(","I","L","C",";","L","q","/","y",";",")",
                  "[","L","q","/","y",";",
                  " ","g","e","t","\n",
                  "q","/","y"," ","p","/","A","\n">>

---------------------------------------------------------------------------
(* C10: the Name Table is frozen during the second pass: no step of the    *)
(* second pass changes it; equal lines produced equal output lines         *)
(* wherever they stand, and a token that is both the return type and the   *)
(* parameter of a method line was emitted as the same descriptor twice.    *)

C10_SameDescriptor ==
    LET ls == InputLines
        ol == OutLines
    IN \A j \in 1..Processed :
          /\ \A k \in 1..Processed :
                ls[j] = ls[k] /\ Emits(ls[j]) => ol[OutIndex(ls, j)] = ol[OutIndex(ls, k)]
          /\ \A p \in TypedMethodTable :
                ls[j] = p[1] =>
                    LET out == ol[OutIndex(ls, j)]
                        n == (Len(out) - 7) \div 2
                        d == SubSeq(out, 5, 4 + n)
                    IN /\ n >= 1
                       /\ out = <<"\t","m"," ","(">> \o d \o <<")">> \o d \o <<" ","f">>

\* C10: no step of the second pass changes the Name Table, and equal tokens
\* and lines are emitted equally wherever they stand.
C10_FrozenNameTable ==
    /\ [][pc = "second_pass" => file_name' = file_name]_vars
    /\ [](C10_SameDescriptor)

\* The same method line above and below the header it refers to.
C10_Witness ==
    /\ mappings = Text(<<MkMethod(MethGet), MkHeader(HdrCy), MkMethod(MethGet)>>)
    /\ pc = "done"
    /\ file_name = (<<"L","C",";">> :> <<"y">>)
    /\ OutLines[1] = OutLines[3]
    /\ OutLines[3] = <<"\t","c"," ","(","I","L","y",";","L","p","/","A",";",")",
                       "[","L","p","/","A",";"," ","g","e","t">>

=============================================================================
